---- MODULE Spec2Model ----
(***************************************************************************)
(* Model of patternmatching/funcs.py: the Matcher session (Matcher.match,  *)
(* Matcher.visit), the ordered rule cases, the MapStack of bound names,    *)
(* the Bounder history and the backtracking search of pattern_action.      *)
(*                                                                         *)
(* Python values are tagged records: PyInt(n) is the int n, PyList(s) is   *)
(* a list of ints.  Patterns are records tagged by the field t.            *)
(* pattern_action.visit is a generator; its lazy, nested evaluation is     *)
(* modelled by an explicit machine (Step / Run) whose configuration holds  *)
(* the running visit call, the chain of consumers of its yields (S) and    *)
(* the stack of suspended generators that still have alternatives (B).     *)
(***************************************************************************)
EXTENDS Integers, Sequences, FiniteSets, TLC

(***************************************************************************)
(* Bounds of the model.                                                    *)
(***************************************************************************)
MaxAttempts == 2
RecursionLimit == 12
LogMaxSteps == 14

(***************************************************************************)
(* Program constants.                                                      *)
(***************************************************************************)
\* infinity = float('inf'); every count compares below it (see GtMax).
infinity == -1

\* NONE = object(): the "no previous binding" marker of the Group branch.
NONE == [k |-> "NONE", v |-> 0]

(***************************************************************************)
(* Python values.                                                          *)
(***************************************************************************)
PyInt(n) == [k |-> "int", v |-> n]
PyList(s) == [k |-> "list", v |-> s]

\* value == other for ints and lists of ints (an int never equals a list).
PyEq(a, b) == a.k = b.k /\ a.v = b.v

\* bool(value): 0 and the empty list are falsy.
Truthy(a) == IF a.k = "int" THEN a.v # 0 ELSE a.v # <<>>

\* len(sequence), sequence[offset] (0-based), sequence[offset:end]
PyLen(seq) == Len(seq.v)
PyItem(seq, offset) == PyInt(seq.v[offset + 1])
PySlice(seq, offset, end) ==
    PyList(IF end <= offset THEN <<>>
           ELSE SubSeq(seq.v, offset + 1, IF end > Len(seq.v) THEN Len(seq.v) ELSE end))

(***************************************************************************)
(* MapStack: a list of dicts, each a function from the names it holds.     *)
(***************************************************************************)
EmptyDict == [n \in {} |-> NONE]

\* MapStack.__init__: list(maps) or [{}]
MapStackInit == << EmptyDict >>

\* MapStack.push: a new empty frame on top
MapPush(maps) == Append(maps, EmptyDict)

\* MapStack.pull with the update the other way round: where both frames
\* hold a name, the frame beneath keeps its value
MapPull_keep_older(maps) ==
    LET n == Len(maps)
        merged == [k \in (DOMAIN maps[n - 1]) \cup (DOMAIN maps[n]) |->
                      IF k \in DOMAIN maps[n - 1] THEN maps[n - 1][k] ELSE maps[n][k]]
    IN  [SubSeq(maps, 1, n - 1) EXCEPT ![n - 1] = merged]

\* MapStack.pull: the top frame is popped and the frame beneath is updated
\* with it (maps has at least two frames)
MapPull(maps) ==
    LET n == Len(maps)
        merged == [k \in (DOMAIN maps[n - 1]) \cup (DOMAIN maps[n]) |->
                      IF k \in DOMAIN maps[n] THEN maps[n][k] ELSE maps[n - 1][k]]
    IN  [SubSeq(maps, 1, n - 1) EXCEPT ![n - 1] = merged]

\* MapStack.undo: the top frame is popped
MapUndo(maps) == SubSeq(maps, 1, Len(maps) - 1)

\* MapStack.__contains__
MapContains(maps, key) == \E i \in 1..Len(maps) : key \in DOMAIN maps[i]

\* MapStack.__getitem__: the most recent frame that holds the key
MapGetItem(maps, key) ==
    LET holders == { i \in 1..Len(maps) : key \in DOMAIN maps[i] }
        top == CHOOSE i \in holders : \A j \in holders : j <= i
    IN  maps[top][key]

\* MapStack.__setitem__: write into the last frame
MapSetItem(maps, key, value) ==
    [maps EXCEPT ![Len(maps)] =
        [n \in (DOMAIN maps[Len(maps)]) \cup {key} |->
            IF n = key THEN value ELSE maps[Len(maps)][n]]]

\* MapStack.pop(key, default): value removed from the last frame, or default
MapPopValue(maps, key, default) ==
    IF key \in DOMAIN maps[Len(maps)] THEN maps[Len(maps)][key] ELSE default

MapPopMaps(maps, key) ==
    [maps EXCEPT ![Len(maps)] =
        [n \in (DOMAIN maps[Len(maps)]) \ {key} |-> maps[Len(maps)][n]]]

\* MapStack.copy: dict(self), every visible key with its visible value
MapCopy(maps) ==
    [n \in UNION { DOMAIN maps[i] : i \in 1..Len(maps) } |-> MapGetItem(maps, n)]

\* MapStack.reset: del self._maps[1:]; self._maps[0].clear()
MapReset(maps) == << EmptyDict >>

(***************************************************************************)
(* Patterns.                                                               *)
(***************************************************************************)
\* a literal int used as a pattern
Lit(n) == [t |-> "Lit", v |-> n]
\* a type used as a pattern: int or list
Type(tn) == [t |-> "Type", name |-> tn]
\* a Python list used as a pattern (matched by the 'sequences' case)
List(items) == [t |-> "List", items |-> items]
Anyone == [t |-> "Anyone"]
Name(value) == [t |-> "Name", value |-> value]
\* like(pattern, name): pattern is a callable, name may be "None"
Like(pattern, name) == [t |-> "Like", pattern |-> pattern, name |-> name]
Pattern(items) == [t |-> "Pattern", items |-> items]
Repeat(pattern, min, max, greedy) ==
    [t |-> "Repeat", pattern |-> pattern, min |-> min, max |-> max, greedy |-> greedy]
Group(pattern, name) == [t |-> "Group", pattern |-> pattern, name |-> name]
Either(options) == [t |-> "Either", options |-> options]
Exclude(options) == [t |-> "Exclude", options |-> options]

\* the classes that extend PatternMixin
IsMixin(value) == value.t \in {"Anyone", "Repeat", "Group", "Either", "Exclude"}

\* make_tuple without its Sequence branch: only a tuple is taken apart
make_tuple_tuples_only(value) ==
    IF value.t = "List" THEN value.items ELSE << value >>

\* make_tuple: a tuple is itself, another Sequence is tuple(value) (the items
\* of a list or a Pattern, the one item of a mixin, which is the mixin),
\* anything else is the one-item tuple holding it
make_tuple(value) ==
    IF value.t \in {"List", "Pattern"} THEN value.items ELSE << value >>

\* Pattern(value): Pattern.__init__ called with one argument
PatternOne(value) == Pattern(make_tuple(value))

\* the exception a + b raises when neither operand implements it
TypeError == [t |-> "TypeError"]

\* a + b as Python evaluates it: a.__add__(b) if a defines it for b, else
\* b.__radd__(a), else TypeError
RECURSIVE Add(_, _)
Add(a, b) ==
    CASE a.t = "TypeError" \/ b.t = "TypeError" -> TypeError
      [] a.t = "Pattern" -> Pattern(a.items \o make_tuple(b))      \* Pattern.__add__
      [] IsMixin(a) -> Add(PatternOne(a), b)                       \* PatternMixin.__add__
      [] b.t = "Pattern" -> Pattern(make_tuple(a) \o b.items)      \* Pattern.__radd__
      [] IsMixin(b) -> Add(a, PatternOne(b))                       \* PatternMixin.__radd__
      [] a.t = "Lit" /\ b.t = "Lit" -> Lit(a.v + b.v)              \* int.__add__
      [] a.t = "List" /\ b.t = "List" -> List(a.items \o b.items)  \* list.__add__
      [] OTHER -> TypeError

\* the comparison off by one: count > item.max + 1
GtMax_off_by_one(count, max) == max # infinity /\ count > max + 1

\* count > item.max, where item.max may be float('inf')
GtMax(count, max) == max # infinity /\ count > max

\* Pattern.__len__ / PatternMixin.__len__ and __getitem__: a Pattern is its
\* tuple of items, a mixin (Repeat, Group, Either, Exclude) is the one-item
\* sequence holding itself.
PatternItems(pattern) ==
    IF pattern.t = "Pattern" THEN pattern.items ELSE << pattern >>

(***************************************************************************)
(* Outcomes of a call: returned normally, raised Mismatch, or raised some  *)
(* other exception.  names is the MapStack as the call left it.            *)
(***************************************************************************)
(* trail is an observation, not program state: the names the call stored   *)
(* and the quantifiers it left, in order, along the alignment it accepted. *)
(* ends and frames are observations of a structural search (see             *)
(* pattern_action); a call that searches nothing leaves them empty.        *)
(* pushed is what the call appended to matcher.bound: the dicts committed  *)
(* by match calls a user's callable made on the same Matcher.              *)
Returned(names) ==
    [st |-> "ok", names |-> names, trail |-> <<>>, ends |-> {}, frames |-> {},
     pushed |-> <<>>]
RaisedMismatch(names) ==
    [st |-> "mismatch", names |-> names, trail |-> <<>>, ends |-> {}, frames |-> {},
     pushed |-> <<>>]
RaisedError(names) ==
    [st |-> "error", names |-> names, trail |-> <<>>, ends |-> {}, frames |-> {},
     pushed |-> <<>>]

\* trail events: a name stored with a value (by name_store or by the Group
\* branch), a quantifier left after reps repetitions with the counter at
\* count, an alternation passed through its option number k
Bind(name, value) ==
    [e |-> "bind", name |-> name, value |-> value, reps |-> 0, min |-> 0, max |-> 0]
Exit(item, reps, count) ==
    [e |-> "exit", name |-> "None", reps |-> reps, count |-> count,
     min |-> item.min, max |-> item.max]
Option(k) == [e |-> "option", name |-> "None", k |-> k]

(***************************************************************************)
(* Callables given to like(): the user's predicates.  Each is either a     *)
(* returned value or a raised exception, benign (in like_errors) or not.   *)
(*   odd    : lambda num: num % 2                                          *)
(*   lookup : lambda num: {1: 1}[num]       KeyError unless num == 1       *)
(*   fatal  : lambda num: 2 // (2 - num)    ZeroDivisionError at num == 2  *)
(*   rematch: lambda num: matcher.match(num, 1)   a match call on the      *)
(*            Matcher that is calling it; True when num == 1, else False   *)
(***************************************************************************)
FuncRaises(func, value) ==
    CASE func = "odd" -> IF value.k = "int" THEN "no" ELSE "benign"
      [] func = "lookup" -> IF value.k = "int" /\ value.v = 1 THEN "no" ELSE "benign"
      [] func = "fatal" -> IF value.k # "int" THEN "benign"
                           ELSE IF value.v = 2 THEN "fatal" ELSE "no"
      [] func = "rematch" -> "no"

FuncResult(func, value) ==
    CASE func = "odd" -> PyInt(value.v % 2)
      [] func = "lookup" -> PyInt(1)
      [] func = "fatal" -> PyInt(2 \div (2 - value.v))
      [] func = "rematch" -> IF value.k = "int" /\ value.v = 1 THEN PyInt(1) ELSE PyInt(0)

\* matcher.cases, the ordered list of rule cases a Matcher goes through
VARIABLE cases

(***************************************************************************)
(* The rule cases, in the order base_cases lists them.  A caller may put    *)
(* cases of its own into the list a Matcher is given; two stand for them:  *)
(*   never  : Case('never', lambda m, v, p: isinstance(p, int), action     *)
(*            raises Mismatch)                                             *)
(*   always : Case('always', lambda m, v, p: True, lambda m, v, p: v)      *)
(***************************************************************************)
base_cases ==
    << "anyone", "names", "likes", "types", "literals", "equality",
       "sequences", "patterns" >>

\* name_store without its comparison: a bound name is overwritten
name_store_overwrite(names, name, value) ==
    [Returned(MapSetItem(names, name, value)) EXCEPT !.trail = << Bind(name, value) >>]

\* name_store
name_store(names, name, value) ==
    IF MapContains(names, name) /\ ~ PyEq(value, MapGetItem(names, name))
    THEN RaisedMismatch(names)
    ELSE [Returned(MapSetItem(names, name, value)) EXCEPT !.trail = << Bind(name, value) >>]

\* name_action
name_action(names, value, name) == name_store(names, name.value, value)

RECURSIVE MatcherMatch(_, _, _, _)

\* what calling func(value) does to the Matcher: 'rematch' runs a whole
\* match call on it, the other callables leave it alone
FuncCall(func, names, value) ==
    IF func = "rematch" THEN MatcherMatch(names, <<>>, value, Lit(1))
    ELSE [names |-> names, bound |-> <<>>]

\* like_action, for a callable pattern
like_action(names, value, pattern) ==
    LET raises == FuncRaises(pattern.pattern, value)
        result == FuncResult(pattern.pattern, value)
        called == FuncCall(pattern.pattern, names, value)
        after(out) == [out EXCEPT !.pushed = called.bound]
    IN  IF raises = "benign" THEN after(RaisedMismatch(called.names))
        ELSE IF raises = "fatal" THEN after(RaisedError(called.names))
        ELSE IF ~ Truthy(result) THEN after(RaisedMismatch(called.names))
        ELSE IF pattern.name # "None"
        THEN after(name_store(called.names, pattern.name, result))
        ELSE after(Returned(called.names))

\* type_action: isinstance(value, pattern)
type_action(names, value, pattern) ==
    IF value.k = pattern.name THEN Returned(names) ELSE RaisedMismatch(names)

\* literal_action
literal_action(names, value, pattern) ==
    IF value.v = pattern.v THEN Returned(names) ELSE RaisedMismatch(names)

\* equality_predicate accepting every pair
equality_predicate_any_pair(value, pattern) == TRUE

\* value == pattern as equality_predicate evaluates it: a list equals a list
\* pattern of the same length whose items are all literals equal to the
\* elements; every other pair compares unequal or raises, which is False.
equality_predicate(value, pattern) ==
    CASE pattern.t = "Lit" -> value.k = "int" /\ value.v = pattern.v
      [] pattern.t = "List" ->
            /\ value.k = "list"
            /\ Len(value.v) = Len(pattern.items)
            /\ \A i \in 1..Len(pattern.items) :
                  /\ pattern.items[i].t = "Lit"
                  /\ pattern.items[i].v = value.v[i]
      [] OTHER -> FALSE

\* sequence_predicate
sequence_predicate(value, pattern) ==
    /\ pattern.t = "List"
    /\ value.k = "list"
    /\ Len(value.v) = Len(pattern.items)

\* pattern_predicate (an Anyone never gets here: the 'anyone' case is first)
pattern_predicate(value, pattern) ==
    pattern.t \in {"Pattern", "Repeat", "Group", "Either", "Exclude", "Anyone"}

\* the predicate of the case called name
CasePredicate(name, value, pattern) ==
    CASE name = "anyone" -> pattern.t = "Anyone"
      [] name = "names" -> pattern.t = "Name"
      [] name = "likes" -> pattern.t = "Like"
      [] name = "types" -> pattern.t = "Type"
      [] name = "literals" -> pattern.t = "Lit" /\ value.k = "int"
      [] name = "equality" -> equality_predicate(value, pattern)
      [] name = "sequences" -> sequence_predicate(value, pattern)
      [] name = "patterns" -> pattern_predicate(value, pattern)
      [] name = "never" -> pattern.t = "Lit"
      [] name = "always" -> TRUE

RECURSIVE MatcherVisit(_, _, _)

(***************************************************************************)
(* pattern_action.visit.  A configuration c of the search:                 *)
(*   mode     "call"  a visit(pattern, index, offset, count) call is at    *)
(*                    its index == len_pattern test (on entry, or after    *)
(*                    index += 1; offset += 1)                             *)
(*            "yield" the running generator yields offset to its consumer  *)
(*            "fail"  the running generator returned: it is exhausted      *)
(*            "found" / "mismatch" / "error": the search is over           *)
(*   depth    nesting of the running generator (the outermost visit is 1)  *)
(*   S        the consumers of the yielded offset, innermost last: the     *)
(*            'for end in ...' / 'for stop in ...' loops it passes through *)
(*   B        the suspended generators that have something left to try,    *)
(*            most recent last                                             *)
(*   names    matcher.names                                                *)
(*   pushed   what the search has appended to matcher.bound (see Returned)  *)
(*   reps, trail   observation only: repetitions done since the quantifier *)
(*            at index was entered; events of the current alignment        *)
(*   ends, frames  observation only: every offset a generator has yielded; *)
(*            len(names._maps) at each start of a speculative branch       *)
(***************************************************************************)
Fail(c) == [c EXCEPT !.mode = "fail"]

\* a speculative branch starts: one more repetition, one group alignment,
\* one alternation option, one negation probe
Branch(c) == [c EXCEPT !.frames = @ \cup { Len(c.names) }]

\* enter visit(pattern, index, offset, count) as a new generator frame; a
\* frame beyond the interpreter's recursion limit raises RuntimeError
Call(c, pattern, index, offset, count, reps, depth, S) ==
    IF depth > RecursionLimit
    THEN [c EXCEPT !.mode = "error"]
    ELSE [c EXCEPT !.mode = "call", !.pattern = pattern, !.index = index,
                   !.offset = offset, !.count = count, !.reps = reps,
                   !.depth = depth, !.S = S]

\* for end in visit(item.pattern, 0, offset, count):
\*     for stop in visit(pattern, index, end, count + 1): yield stop
RepeatMore(c, pattern, index, offset, count, reps, depth, S) ==
    Call(Branch(c), pattern[index + 1].pattern, 0, offset, count, 0, depth + 1,
         Append(S, [f |-> "Repeat", pattern |-> pattern, index |-> index,
                    count |-> count + 1, reps |-> reps + 1, depth |-> depth]))

\* if count >= item.min:
\*     for stop in visit(pattern, index + 1, offset, 0): yield stop
RepeatExit(c, pattern, index, offset, count, reps, depth, S) ==
    IF count >= pattern[index + 1].min
    THEN Call([c EXCEPT !.trail = Append(@, Exit(pattern[index + 1], reps, count))],
              pattern, index + 1, offset, 0, 0, depth + 1, S)
    ELSE Fail(c)

\* a suspended generator: what it resumes with, and the consumers and the
\* alignment to resume under
ChoicePoint(b, c, pattern, index, offset, count, reps, depth, S, k) ==
    [b |-> b, pattern |-> pattern, index |-> index, offset |-> offset,
     count |-> count, reps |-> reps, depth |-> depth, S |-> S,
     trail |-> c.trail, k |-> k, name |-> "None", prev |-> NONE]

\* the Repeat branch of visit
VisitRepeat(c, len_sequence) ==
    LET item == c.pattern[c.index + 1]
        saved(b) == ChoicePoint(b, c, c.pattern, c.index, c.offset, c.count,
                                c.reps, c.depth, c.S, 0)
    IN  IF GtMax(c.count, item.max) THEN Fail(c)
        ELSE IF item.greedy
        THEN IF c.offset < len_sequence
             THEN RepeatMore([c EXCEPT !.B = Append(@, saved("RepeatExit"))],
                             c.pattern, c.index, c.offset, c.count, c.reps, c.depth, c.S)
             ELSE RepeatExit(c, c.pattern, c.index, c.offset, c.count, c.reps, c.depth, c.S)
        ELSE IF c.count >= item.min
             THEN RepeatExit([c EXCEPT !.B = Append(@, saved("RepeatMore"))],
                             c.pattern, c.index, c.offset, c.count, c.reps, c.depth, c.S)
             ELSE IF c.offset < len_sequence
             THEN RepeatMore(c, c.pattern, c.index, c.offset, c.count, c.reps, c.depth, c.S)
             ELSE Fail(c)

\* the Group branch: for end in visit(item.pattern, 0, offset, 0): ...
VisitGroup(c) ==
    Call(Branch(c), c.pattern[c.index + 1].pattern, 0, c.offset, 0, 0, c.depth + 1,
         Append(c.S, [f |-> "Group", pattern |-> c.pattern, index |-> c.index,
                      offset |-> c.offset, depth |-> c.depth]))

\* the Either branch from option number k on (1-based):
\* for option in item.options: for end in visit(option, 0, offset, 0): ...
VisitEither(c, pattern, index, offset, depth, S, k) ==
    LET item == pattern[index + 1]
    IN  IF k > Len(item.options) THEN Fail(c)
        ELSE Call([Branch(c) EXCEPT !.B = Append(@, ChoicePoint("Either", c, pattern, index,
                                                                 offset, 0, 0, depth, S, k + 1))],
                  item.options[k], 0, offset, 0, 0, depth + 1,
                  Append(S, [f |-> "Either", pattern |-> pattern, index |-> index,
                             depth |-> depth, k |-> k]))

\* the Exclude branch from option number k on (1-based).  An option that
\* yields makes visit return; when no option yields, index and offset
\* advance by one in the same visit call.
VisitExclude(c, pattern, index, offset, count, depth, S, k) ==
    LET item == pattern[index + 1]
    IN  IF k > Len(item.options)
        THEN Call(c, pattern, index + 1, offset + 1, count, 0, depth, S)
        ELSE Call([Branch(c) EXCEPT !.B = Append(@, ChoicePoint("Exclude", c, pattern, index,
                                                                 offset, count, 0, depth, S, k + 1))],
                  item.options[k], 0, offset, 0, 0, depth + 1,
                  << [f |-> "Exclude", barrier |-> Len(c.B) + 1] >>)

\* the leaf branch: matcher.visit(sequence[offset], item)
VisitLeaf(c, sequence) ==
    IF c.offset >= PyLen(sequence) THEN Fail(c)
    ELSE LET out == MatcherVisit(c.names, PyItem(sequence, c.offset), c.pattern[c.index + 1])
         IN  IF out.st = "mismatch"
             THEN Fail([c EXCEPT !.names = out.names, !.pushed = @ \o out.pushed])
             ELSE IF out.st = "error"
             THEN [c EXCEPT !.mode = "error", !.names = out.names,
                            !.pushed = @ \o out.pushed]
             ELSE Call([c EXCEPT !.names = out.names, !.trail = @ \o out.trail,
                                 !.pushed = @ \o out.pushed],
                       c.pattern, c.index + 1, c.offset + 1, c.count, 0, c.depth, c.S)

\* visit at its index == len_pattern test, then the branch of pattern[index]
StepCall(c, sequence) ==
    IF c.index = Len(c.pattern) THEN [c EXCEPT !.mode = "yield"]
    ELSE LET item == c.pattern[c.index + 1]
         IN  CASE item.t = "Repeat" -> VisitRepeat(c, PyLen(sequence))
               [] item.t = "Group" -> VisitGroup(c)
               [] item.t = "Either" ->
                     VisitEither(c, c.pattern, c.index, c.offset, c.depth, c.S, 1)
               [] item.t = "Exclude" ->
                     VisitExclude(c, c.pattern, c.index, c.offset, c.count, c.depth, c.S, 1)
               [] OTHER -> VisitLeaf(c, sequence)

\* the body of 'for end in visit(item.pattern, 0, offset, 0)' in the Group
\* branch, up to its inner loop: rebind the name, continue past the group;
\* the restore after the inner loop waits in B.
GroupBody(c, frame, sequence, rest) ==
    LET item == frame.pattern[frame.index + 1]
        prev == MapPopValue(c.names, item.name, NONE)
        bound == MapSetItem(MapPopMaps(c.names, item.name), item.name,
                            PySlice(sequence, frame.offset, c.offset))
        restore == [ChoicePoint("GroupRestore", c, frame.pattern, frame.index,
                                frame.offset, 0, 0, frame.depth, rest, 0)
                    EXCEPT !.name = item.name, !.prev = prev]
    IN  IF item.name = "None"
        THEN Call(c, frame.pattern, frame.index + 1, c.offset, 0, 0, frame.depth + 1, rest)
        ELSE Call([c EXCEPT !.names = bound, !.B = Append(@, restore),
                            !.trail = Append(@, Bind(item.name,
                                                     PySlice(sequence, frame.offset, c.offset)))],
                  frame.pattern, frame.index + 1, c.offset, 0, 0, frame.depth + 1, rest)

\* the outermost loop taking an end only when it is the end of the value:
\* for end in visit(pattern, 0, 0, 0): if end == len(sequence): return ...
TopYield_whole_value(c, sequence) ==
    IF c.offset = PyLen(sequence) THEN [c EXCEPT !.mode = "found"] ELSE Fail(c)

\* the outermost loop of pattern_action takes the first end yielded:
\* for end in visit(pattern, 0, 0, 0): return sequence[:end]
TopYield(c, sequence) == [c EXCEPT !.mode = "found"]

\* the running generator yields c.offset to the innermost consumer
StepYield(c0, sequence) ==
    LET c == [c0 EXCEPT !.ends = @ \cup { c0.offset }]
    IN
    IF c.S = <<>> THEN TopYield(c, sequence)
    ELSE LET frame == c.S[Len(c.S)]
             rest == SubSeq(c.S, 1, Len(c.S) - 1)
         IN  CASE frame.f = "Repeat" ->
                     Call(c, frame.pattern, frame.index, c.offset, frame.count,
                          frame.reps, frame.depth + 1, rest)
               [] frame.f = "Group" -> GroupBody(c, frame, sequence, rest)
               [] frame.f = "Either" ->
                     Call([c EXCEPT !.trail = Append(@, Option(frame.k))],
                          frame.pattern, frame.index + 1, c.offset, 0, 0,
                          frame.depth + 1, rest)
               [] frame.f = "Exclude" ->
                     Fail([c EXCEPT !.B = SubSeq(@, 1, frame.barrier - 1)])

\* the running generator is exhausted: the most recently suspended one resumes
StepFail(c, sequence) ==
    IF c.B = <<>> THEN [c EXCEPT !.mode = "mismatch"]
    ELSE LET cp == c.B[Len(c.B)]
             d == [c EXCEPT !.B = SubSeq(@, 1, Len(@) - 1)]
             r == [d EXCEPT !.trail = cp.trail]
         IN  CASE cp.b = "RepeatExit" ->
                     RepeatExit(r, cp.pattern, cp.index, cp.offset, cp.count,
                                cp.reps, cp.depth, cp.S)
               [] cp.b = "RepeatMore" ->
                     IF cp.offset < PyLen(sequence)
                     THEN RepeatMore(r, cp.pattern, cp.index, cp.offset, cp.count,
                                     cp.reps, cp.depth, cp.S)
                     ELSE Fail(r)
               [] cp.b = "GroupRestore" ->
                     IF cp.prev.k # NONE.k
                     THEN Fail([d EXCEPT !.names = MapSetItem(@, cp.name, cp.prev)])
                     ELSE Fail(d)
               [] cp.b = "Either" ->
                     VisitEither(r, cp.pattern, cp.index, cp.offset, cp.depth, cp.S, cp.k)
               [] cp.b = "Exclude" ->
                     VisitExclude(r, cp.pattern, cp.index, cp.offset, cp.count,
                                  cp.depth, cp.S, cp.k)

\* one step of the search; a finished search stays as it is
Step(c, sequence) ==
    CASE c.mode = "call" -> StepCall(c, sequence)
      [] c.mode = "yield" -> StepYield(c, sequence)
      [] c.mode = "fail" -> StepFail(c, sequence)
      [] OTHER -> c

\* the search run to its end: Step applied up to 2^n times
RECURSIVE Run(_, _, _)
Run(c, sequence, n) ==
    IF c.mode \in {"found", "mismatch", "error"} THEN c
    ELSE IF n = 0 THEN Step(c, sequence)
    ELSE Run(Run(c, sequence, n - 1), sequence, n - 1)

\* pattern_action: the first end the outermost visit yields, else Mismatch;
\* len(sequence) of an int raises TypeError
pattern_action(names, sequence, pattern) ==
    IF sequence.k # "list" THEN RaisedError(names)
    ELSE LET start == [mode |-> "call", pattern |-> PatternItems(pattern), index |-> 0,
                       offset |-> 0, count |-> 0, reps |-> 0, depth |-> 1,
                       S |-> <<>>, B |-> <<>>, names |-> names, trail |-> <<>>,
                       ends |-> {}, frames |-> {}, pushed |-> <<>>]
             final == Run(start, sequence, LogMaxSteps)
         IN  [st |-> IF final.mode = "found" THEN "ok" ELSE final.mode,
              names |-> final.names, trail |-> final.trail,
              ends |-> final.ends, frames |-> final.frames, pushed |-> final.pushed]

\* sequence_action: matcher.visit(item, iota) for the pairs in order, from
\* pair number i on (1-based)
RECURSIVE sequence_action(_, _, _, _)
sequence_action(names, value, pattern, i) ==
    IF i > Len(pattern.items) THEN Returned(names)
    ELSE LET out == MatcherVisit(names, PyItem(value, i - 1), pattern.items[i])
         IN  IF out.st # "ok" THEN out
             ELSE LET more == sequence_action(out.names, value, pattern, i + 1)
                  IN  [more EXCEPT !.trail = out.trail \o @, !.pushed = out.pushed \o @]

\* the action of the case called name
CaseAction(name, names, value, pattern) ==
    CASE name = "anyone" -> Returned(names)
      [] name = "names" -> name_action(names, value, pattern)
      [] name = "likes" -> like_action(names, value, pattern)
      [] name = "types" -> type_action(names, value, pattern)
      [] name = "literals" -> literal_action(names, value, pattern)
      [] name = "equality" -> Returned(names)
      [] name = "sequences" -> sequence_action(names, value, pattern, 1)
      [] name = "patterns" -> pattern_action(names, value, pattern)
      [] name = "never" -> RaisedMismatch(names)
      [] name = "always" -> Returned(names)

\* Matcher.visit going through self.cases from its end: the last case whose
\* predicate accepts decides
MatcherVisit_last_accepting(names, value, pattern) ==
    LET accepting == { i \in 1..Len(cases) : CasePredicate(cases[i], value, pattern) }
    IN  IF accepting = {} THEN RaisedMismatch(names)
        ELSE LET first == CHOOSE i \in accepting : \A j \in accepting : i >= j
             IN  CaseAction(cases[first], names, value, pattern)

\* Matcher.visit: the first case of self.cases whose predicate accepts
\* decides; when none accepts, Mismatch
MatcherVisit(names, value, pattern) ==
    LET accepting == { i \in 1..Len(cases) : CasePredicate(cases[i], value, pattern) }
    IN  IF accepting = {} THEN RaisedMismatch(names)
        ELSE LET first == CHOOSE i \in accepting : \A j \in accepting : i <= j
             IN  CaseAction(cases[first], names, value, pattern)

\* Matcher.match with names.reset() after the try statement instead of in
\* its finally clause: an exception that propagates skips the reset
MatcherMatch_reset_after_try(maps, history, value, pat) ==
    LET out == MatcherVisit(maps, value, pat)
    IN  [result |-> CASE out.st = "ok" -> "True"
                      [] out.st = "mismatch" -> "False"
                      [] out.st = "error" -> "Error",
         names |-> IF out.st = "error" THEN out.names ELSE MapReset(out.names),
         bound |-> IF out.st = "ok" THEN Append(history \o out.pushed, MapCopy(out.names))
                   ELSE history \o out.pushed,
         trail |-> out.trail, ends |-> out.ends, frames |-> out.frames]

\* Matcher.match with the push in the finally clause instead of the else
\* clause: every attempt commits
MatcherMatch_push_in_finally(maps, history, value, pat) ==
    LET out == MatcherVisit(maps, value, pat)
    IN  [result |-> CASE out.st = "ok" -> "True"
                      [] out.st = "mismatch" -> "False"
                      [] out.st = "error" -> "Error",
         names |-> MapReset(out.names),
         bound |-> Append(history \o out.pushed, MapCopy(out.names)),
         trail |-> out.trail, ends |-> out.ends, frames |-> out.frames]

\* Matcher.match without its except clause: Mismatch leaves the call
MatcherMatch_no_except(maps, history, value, pat) ==
    LET out == MatcherVisit(maps, value, pat)
    IN  [result |-> CASE out.st = "ok" -> "True"
                      [] out.st = "mismatch" -> "Mismatch"
                      [] out.st = "error" -> "Error",
         names |-> MapReset(out.names),
         bound |-> IF out.st = "ok" THEN Append(history \o out.pushed, MapCopy(out.names))
                   ELSE history \o out.pushed,
         trail |-> out.trail, ends |-> out.ends, frames |-> out.frames]

\* Matcher.match: what it gives back and how it leaves names and bound.
\* try: self.visit(value, pattern)
\* except Mismatch: return False
\* else: self.bound.push(names.copy())
\* finally: names.reset()
MatcherMatch(maps, history, value, pat) ==
    LET out == MatcherVisit(maps, value, pat)
    IN  [result |-> CASE out.st = "ok" -> "True"
                      [] out.st = "mismatch" -> "False"
                      [] out.st = "error" -> "Error",
         names |-> MapReset(out.names),
         bound |-> IF out.st = "ok" THEN Append(history \o out.pushed, MapCopy(out.names))
                   ELSE history \o out.pushed,
         trail |-> out.trail, ends |-> out.ends, frames |-> out.frames]

(***************************************************************************)
(* The Matcher session and its caller.  Its state:                         *)
(*   names     matcher.names, the MapStack                                 *)
(*   bound     matcher.bound, the Bounder's list of committed dicts        *)
(*   cases     matcher.cases (declared with the rule cases above)          *)
(*   pattern   the pattern object the caller built and matches against     *)
(*   attempts  number of match calls made so far                           *)
(*   last      the last match call: its value, what it gave back ("True",  *)
(*             "False", or the exception that left it), the trail of the   *)
(*             alignment it accepted and what its search was seen to do    *)
(*   marks     observation only: what the caller of names.push() saw just  *)
(*             before each push that is still open, and the last MapStack  *)
(*             call made                                                   *)
(*   built     the operands and results of the caller's last pattern       *)
(*             concatenations                                              *)
(***************************************************************************)
VARIABLES names, bound, pattern, attempts, last, marks, built

vars == << names, bound, cases, pattern, attempts, last, marks, built >>

NoValue == PyList(<<>>)

NoCall == [value |-> NoValue, result |-> "none", trail |-> <<>>, ends |-> {}, frames |-> {}]

NoMarks == [open |-> <<>>, op |-> "none", before |-> EmptyDict,
            closed |-> [visible |-> EmptyDict, count |-> 0]]

NoBuilt == [done |-> FALSE, a |-> Anyone, b |-> Anyone, c |-> Anyone,
            left |-> Anyone, right |-> Anyone, direct |-> Anyone,
            wrapped_left |-> Anyone, wrapped_right |-> Anyone]

\* Matcher.__init__ with the default cases, and the caller's pattern, one of
\* the set patterns
InitSession(patterns) ==
    /\ names = MapStackInit
    /\ bound = <<>>
    /\ cases = base_cases
    /\ pattern \in patterns
    /\ attempts = 0
    /\ last = NoCall
    /\ marks = NoMarks
    /\ built = NoBuilt

\* one call matcher.match(value, pattern)
Match(value) ==
    /\ attempts < MaxAttempts
    /\ LET m == MatcherMatch(names, bound, value, pattern)
       IN  /\ names' = m.names
           /\ bound' = m.bound
           /\ last' = [value |-> value, result |-> m.result, trail |-> m.trail,
                        ends |-> m.ends, frames |-> m.frames]
    /\ attempts' = attempts + 1
    /\ UNCHANGED << cases, pattern, marks, built >>

(***************************************************************************)
(* Inputs: the values the callers pass.                                    *)
(***************************************************************************)
MaxLen == 3

RECURSIVE SeqsUpTo(_, _)
SeqsUpTo(S, n) ==
    IF n = 0 THEN { <<>> }
    ELSE LET shorter == SeqsUpTo(S, n - 1)
         IN  shorter \cup { Append(s, x) : s \in { t \in shorter : Len(t) = n - 1 }, x \in S }

Values == { PyList(s) : s \in SeqsUpTo({1, 2}, MaxLen) }

(***************************************************************************)
(* Observations on the last call.                                          *)
(***************************************************************************)
\* the dict the last successful call committed
Committed == bound[Len(bound)]

\* the names stored along the accepted alignment
TrailBinds(trail) == { trail[i].name : i \in { j \in 1..Len(trail) : trail[j].e = "bind" } }

\* the quantifier exits along the accepted alignment
TrailExits(trail) == { trail[i] : i \in { j \in 1..Len(trail) : trail[j].e = "exit" } }

\* an item the search hands to matcher.visit
IsLeaf(item) == item.t \in {"Lit", "Anyone", "Name", "Like"}

\* the result of matcher.match(value, pat) on a fresh Matcher
Fresh(value, pat) == MatcherMatch(MapStackInit, <<>>, value, pat).result

(***************************************************************************)
(* Sessions whose pattern has captures inside alternations, negations,     *)
(* groups and quantifiers.                                                 *)
(***************************************************************************)
BindingPatterns ==
    { Pattern(<< Either(<< << Name("x"), Lit(2) >>, << Name("y") >> >>) >>),
      Pattern(<< Either(<< << Name("x"), Lit(1) >>, << Name("y"), Name("x") >> >>) >>),
      Pattern(<< Either(<< << Lit(1), Name("x") >>, << Name("y") >> >>), Lit(2) >>),
      Pattern(<< Either(<< << Lit(1), Lit(1) >>, << Name("x"), Lit(2) >>, << Name("y") >> >>) >>),
      Pattern(<< Either(<< << Like("odd", "x"), Lit(2) >>, << Lit(2), Name("x") >> >>) >>),
      Pattern(<< Either(<< << Lit(1) >>, << Lit(2), Lit(2) >> >>) >>),
      Pattern(<< Either(<< << Like("odd", "x") >>, << Anyone >> >>), Name("y") >>),
      Pattern(<< Repeat(<< Name("x") >>, 0, infinity, TRUE), Name("y") >>),
      Pattern(<< Repeat(<< Anyone >>, 0, infinity, TRUE), Name("y"), Lit(2) >>),
      Pattern(<< Repeat(<< Anyone >>, 0, 2, FALSE), Name("y"), Lit(2) >>),
      Pattern(<< Group(<< Repeat(<< Lit(1) >>, 0, infinity, TRUE) >>, "x"), Name("y") >>),
      Pattern(<< Group(<< Either(<< << Name("x"), Lit(1) >>, << Lit(1) >> >>) >>, "y"), Lit(2) >>),
      Pattern(<< Name("x"), Name("y"), Lit(2) >>) }

InitBinding == InitSession(BindingPatterns)
NextBinding == \E value \in Values : Match(value)
SpecBinding == InitBinding /\ [][NextBinding]_vars

\* C1: after an attempt that returns true, the committed entry holds only
\* names that were bound along the surviving alignment.
C1_CommittedOnlySurviving ==
    last.result = "True" => DOMAIN Committed \subseteq TrailBinds(last.trail)

\* C17: every speculative branch of the search (one more repetition, one
\* group alignment, one alternation option, one negation probe) is explored
\* between a push and its pull or undo: where a branch starts the MapStack
\* holds, above its first frame, the frame pushed for the branch.
C17_BranchesAreBracketed ==
    \A count \in last.frames : count >= 2

\* a pattern that is one alternation over sequences of leaves
IsAlternation(pat) ==
    /\ pat.t = "Pattern"
    /\ Len(pat.items) = 1
    /\ pat.items[1].t = "Either"
    /\ \A k \in 1..Len(pat.items[1].options) :
          \A i \in 1..Len(pat.items[1].options[k]) : IsLeaf(pat.items[1].options[k][i])

\* C6: an alternation matches iff at least one of its options matches when
\* tried from the bindings visible before the alternation started (none, at
\* the start of an attempt).
C6_MatchesIffSomeOption ==
    (IsAlternation(pattern) /\ last.result # "none") =>
        (last.result = "True" <=>
            \E k \in 1..Len(pattern.items[1].options) :
                Fresh(last.value, Pattern(pattern.items[1].options[k])) = "True")

(***************************************************************************)
(* Sessions whose attempts return true, return false and are left by an    *)
(* error of a user predicate.                                              *)
(***************************************************************************)
SessionPatterns ==
    { Pattern(<< Name("x"), Like("fatal", "None") >>),
      Pattern(<< Name("x"), Like("fatal", "y"), Lit(1) >>),
      Pattern(<< Repeat(<< Name("x") >>, 1, infinity, TRUE), Like("fatal", "None") >>),
      Pattern(<< Either(<< << Name("x"), Lit(1) >>, << Name("y"), Like("fatal", "None") >> >>) >>),
      Pattern(<< Group(<< Anyone, Anyone >>, "x"), Like("fatal", "y") >>),
      List(<< Name("x"), Like("fatal", "None") >>),
      List(<< Name("x"), Name("y"), Lit(1) >>),
      Pattern(<< Name("x"), Repeat(<< Lit(2) >>, 1, 2, FALSE), Name("y") >>) }

InitAttempts == InitSession(SessionPatterns)
NextAttempts == \E value \in Values : Match(value)
SpecAttempts == InitAttempts /\ [][NextAttempts]_vars

\* C2: at the start and at the end of every attempt (true, false, or left
\* by a user predicate's error) the Binding Environment is one empty frame.
C2_SingleEmptyFrame == Len(names) = 1 /\ names[1] = EmptyDict

\* an attempt bound a name and was then left by a predicate's error
C2_Witness ==
    /\ last.result = "Error"
    /\ Len(last.value.v) >= 2
    /\ Len(names) = 1 /\ DOMAIN names[1] = {}

\* C9: the Match History grows by exactly one entry on each attempt that
\* returns true, is unchanged by each attempt that returns false, and its
\* earlier entries are never modified.
C9_HistoryAppendOnly ==
    [][ /\ last'.result = "True" =>
              /\ Len(bound') = Len(bound) + 1
              /\ SubSeq(bound', 1, Len(bound)) = bound
        /\ last'.result = "False" => bound' = bound ]_vars

\* a failed attempt after a successful one that bound a name: the history
\* still ends with the successful attempt's snapshot
C9_Witness ==
    /\ attempts = 2
    /\ last.result = "False"
    /\ Len(bound) = 1
    /\ "x" \in DOMAIN bound[1]

(***************************************************************************)
(* Sessions whose pattern is built from quantifiers: over one leaf and     *)
(* followed by leaves, nested in one another, and over subpatterns that    *)
(* can match no element.                                                   *)
(***************************************************************************)
SplitPatterns ==
    { Pattern(<< Repeat(<< leaf >>, min, max, greedy) >> \o tail) :
        leaf \in { Anyone, Lit(1) }, min \in {0, 1}, max \in {2, infinity},
        greedy \in BOOLEAN,
        tail \in { << Lit(2) >>, << Name("y"), Lit(2) >>, << Anyone, Anyone >> } }

NestedPatterns ==
    { Pattern(<< Repeat(<< Lit(1), Repeat(<< Lit(2) >>, min, infinity, greedy) >>, 2, infinity, TRUE) >>) :
        min \in {0, 1}, greedy \in BOOLEAN }
    \cup
    { Pattern(<< Repeat(<< Repeat(<< Lit(1) >>, 1, 2, greedy), Lit(2) >>, 1, 2, greedy) >>) :
        greedy \in BOOLEAN }
    \cup
    { Pattern(<< Lit(1), Repeat(<< Lit(2), Repeat(<< Lit(1) >>, 2, 3, TRUE) >>, 0, 1, FALSE) >>) }

ZeroWidthPatterns ==
    { Pattern(<< Repeat(<< >>, 0, infinity, greedy) >> \o tail) :
        greedy \in BOOLEAN, tail \in { << >>, << Lit(1) >> } }
    \cup
    { Pattern(<< Repeat(<< Repeat(<< Lit(1) >>, 0, 1, TRUE) >>, 0, infinity, FALSE), Lit(2) >>),
      Pattern(<< Repeat(<< Repeat(<< Lit(1) >>, 0, 1, TRUE) >>, 0, 2, TRUE), Lit(2) >>),
      Pattern(<< Repeat(<< >>, 1, 2, TRUE), Lit(1) >>) }

QuantifierPatterns == SplitPatterns \cup NestedPatterns \cup ZeroWidthPatterns

InitQuantifier == InitSession(QuantifierPatterns)
NextQuantifier == \E value \in Values : Match(value)
SpecQuantifier == InitQuantifier /\ [][NextQuantifier]_vars

\* C3: in every accepted alignment, each quantifier that is exited has had
\* its subpattern matched at least min consecutive times since it was
\* entered, nested quantifiers included.
C3_ExitsSatisfyMin ==
    last.result = "True" => \A e \in TrailExits(last.trail) : e.reps >= e.min

\* C4: for every finite value and pattern (no user predicate involved) the
\* attempt terminates and returns true or false.
C4_ReturnsTrueOrFalse == last.result \in {"none", "True", "False"}

\* a pattern that is a quantifier over one leaf followed by leaves
IsSplit(pat) ==
    /\ pat.t = "Pattern"
    /\ Len(pat.items) >= 2
    /\ pat.items[1].t = "Repeat"
    /\ Len(pat.items[1].pattern) = 1
    /\ IsLeaf(pat.items[1].pattern[1])
    /\ \A i \in 2..Len(pat.items) : IsLeaf(pat.items[i])

\* the split pattern with its quantifier replaced by k copies of the leaf
Unrolled(pat, k) ==
    Pattern([i \in 1..k |-> pat.items[1].pattern[1]] \o Tail(pat.items))

\* the repetition counts in [min, max] for which the leaf matches that many
\* elements and the remaining items match what follows
FeasibleCounts(value, pat) ==
    { k \in pat.items[1].min ..
            (IF pat.items[1].max = infinity THEN Len(value.v) ELSE pat.items[1].max) :
        Fresh(value, Unrolled(pat, k)) = "True" }

\* C5: a quantifier over one leaf followed by further items is accepted
\* with the largest (greedy) or smallest (non-greedy) repetition count in
\* [min, max] for which the remaining items match, whenever there is one.
C5_ExtremalFeasibleCount ==
    (IsSplit(pattern) /\ last.result # "none") =>
        LET feasible == FeasibleCounts(last.value, pattern)
        IN  /\ last.result = "True" <=> feasible # {}
            /\ last.result = "True" =>
                 /\ last.trail # <<>>
                 /\ last.trail[1].e = "exit"
                 /\ last.trail[1].reps \in feasible
                 /\ \A k \in feasible :
                       IF pattern.items[1].greedy THEN k <= last.trail[1].reps
                       ELSE k >= last.trail[1].reps

(***************************************************************************)
(* Sessions whose pattern has quantifiers with a finite max: alone or      *)
(* followed by a literal, nested, and over a subpattern that can match no  *)
(* element.                                                                *)
(***************************************************************************)
BoundedPatterns ==
    { Pattern(<< Repeat(<< leaf >>, 0, max, greedy) >> \o tail) :
        leaf \in { Anyone, Lit(1) }, max \in {1, 2}, greedy \in BOOLEAN,
        tail \in { << >>, << Lit(2) >> } }
    \cup
    { Pattern(<< Repeat(<< Repeat(<< Lit(1) >>, 1, 2, greedy), Lit(2) >>, 1, 2, greedy) >>) :
        greedy \in BOOLEAN }
    \cup
    { Pattern(<< Repeat(<< >>, 1, 2, TRUE), Lit(1) >>),
      Pattern(<< Repeat(<< Repeat(<< Lit(1) >>, 0, 1, TRUE) >>, 0, 2, TRUE), Lit(2) >>) }

InitBounded == InitSession(BoundedPatterns)
NextBounded == \E value \in Values : Match(value)
SpecBounded == InitBounded /\ [][NextBounded]_vars

\* C12: in every accepted alignment, each quantifier that is exited has had
\* its subpattern matched at most max consecutive times since it was
\* entered, and its repeat counter does not exceed max where it is exited
\* (a branch whose counter exceeds max yields nothing).
C12_ExitsSatisfyMax ==
    last.result = "True" =>
        \A e \in TrailExits(last.trail) :
            e.max # infinity => (e.reps <= e.max /\ e.count <= e.max)

\* a quantifier was exited after exactly max repetitions
C12_Witness ==
    /\ last.result = "True"
    /\ \E e \in TrailExits(last.trail) : e.max = 2 /\ e.reps = 2

(***************************************************************************)
(* Sessions whose pattern is a sequence of captures, literals and          *)
(* wildcards, as a structural Pattern or as a fixed-length list.           *)
(***************************************************************************)
CaptureLeaves == { Lit(1), Name("x"), Name("y"), Anyone }

CapturePatterns ==
    { Pattern(s) : s \in SeqsUpTo(CaptureLeaves, 2) }
    \cup { List(s) : s \in SeqsUpTo(CaptureLeaves, 2) }
    \cup { List(<< Lit(1), Name("head"), Lit(3) >>),
           Pattern(<< Lit(1), Name("head"), Lit(3) >>),
           Pattern(<< Name("x"), Anyone, Name("x") >>) }

CaptureValues == Values \cup { PyList(<< 1, 2, 3 >>) }

InitCapture == InitSession(CapturePatterns)
NextCapture == \E value \in CaptureValues : Match(value)
SpecCapture == InitCapture /\ [][NextCapture]_vars

\* what the claim says of a sequence of captures, literals and wildcards:
\* literals equal their elements and equal names stand on equal elements
CaptureAccepts(value, pat) ==
    LET n == Len(pat.items)
        v == value.v
    IN  /\ IF pat.t = "List" THEN Len(v) = n ELSE Len(v) >= n
        /\ \A i \in 1..n : pat.items[i].t = "Lit" => v[i] = pat.items[i].v
        /\ \A i, j \in 1..n :
              (pat.items[i].t = "Name" /\ pat.items[j].t = "Name"
                 /\ pat.items[i].value = pat.items[j].value) => v[i] = v[j]

CaptureNames(pat) ==
    { pat.items[i].value : i \in { j \in 1..Len(pat.items) : pat.items[j].t = "Name" } }

\* C7: a capture matches any single value and binds it to its name; a name
\* bound again succeeds on an equal value and fails the alignment (False, no
\* error) on an unequal one; the committed entry reads each name's value.
C7_CaptureBindsConsistently ==
    last.result # "none" =>
        /\ last.result = (IF CaptureAccepts(last.value, pattern) THEN "True" ELSE "False")
        /\ last.result = "True" =>
              /\ DOMAIN Committed = CaptureNames(pattern)
              /\ \A i \in 1..Len(pattern.items) :
                    pattern.items[i].t = "Name" =>
                        Committed[pattern.items[i].value] = PyInt(last.value.v[i])

\* [1, capture head, 3] against [1, 2, 3]: true, and head reads 2
C7_Witness ==
    /\ pattern = List(<< Lit(1), Name("head"), Lit(3) >>)
    /\ last.value = PyList(<< 1, 2, 3 >>)
    /\ last.result = "True"
    /\ Committed["head"] = PyInt(2)

(***************************************************************************)
(* Sessions whose pattern has negations over options that capture.         *)
(***************************************************************************)
NegationPatterns ==
    { Pattern(<< Exclude(<< << Name("x"), Lit(2) >> >>) >>),
      Pattern(<< Exclude(<< << Like("odd", "x") >> >>), Name("y") >>),
      Pattern(<< Exclude(<< << Like("odd", "None") >> >>), Name("y") >>),
      Pattern(<< Exclude(<< << Lit(1) >>, << Name("x"), Lit(1) >> >>), Lit(2) >>),
      Pattern(<< Either(<< << Exclude(<< << Name("x") >> >>) >>, << Name("y") >> >>) >>),
      Pattern(<< Name("y"), Exclude(<< << Name("y") >> >>) >>),
      Pattern(<< Repeat(<< Exclude(<< << Like("odd", "None") >> >>) >>, 2, infinity, TRUE) >>),
      Pattern(<< Repeat(<< Exclude(<< << Lit(1), Name("x"), Lit(1) >> >>) >>, 1, 2, FALSE), Lit(2) >>) }

InitNegation == InitSession(NegationPatterns)
NextNegation == \E value \in Values : Match(value)
SpecNegation == InitNegation /\ [][NextNegation]_vars

\* the names the items can bind outside every negation
RECURSIVE NamesOutsideNegation(_)
NamesOutsideNegation(items) ==
    UNION { LET item == items[i]
            IN  CASE item.t = "Name" -> { item.value }
                  [] item.t = "Like" -> { item.name } \ { "None" }
                  [] item.t = "Repeat" -> NamesOutsideNegation(item.pattern)
                  [] item.t = "Group" ->
                        NamesOutsideNegation(item.pattern) \cup ({ item.name } \ { "None" })
                  [] item.t = "Either" ->
                        UNION { NamesOutsideNegation(item.options[k]) :
                                  k \in 1..Len(item.options) }
                  [] OTHER -> {}
            : i \in 1..Len(items) }

\* C8: matching a negation binds nothing: the committed bindings hold no
\* name that only the options of a negation capture.
C8_NegationBindsNothing ==
    last.result = "True" =>
        DOMAIN Committed \subseteq NamesOutsideNegation(PatternItems(pattern))

\* C16: every end offset the search yields, at every nesting level, lies
\* between 0 and the length of the value: no item, a negation included,
\* consumes a position at or past the end of the value.
C16_EndsWithinValue ==
    \A end \in last.ends : 0 <= end /\ end <= Len(last.value.v)

(***************************************************************************)
(* Sessions whose pattern can fail in each way an alignment fails: a leaf  *)
(* that does not match, a quantifier's bounds, a capture conflict, a       *)
(* predicate's benign error or falsy result, an exhausted alternation,     *)
(* group or top-level search, and no rule accepting at all.                *)
(***************************************************************************)
FailurePatterns ==
    { Pattern(<< Lit(1), Lit(2) >>),
      List(<< Lit(1), Name("x") >>),
      Pattern(<< Name("x"), Name("x") >>),
      Pattern(<< Name("x"), Like("odd", "x") >>),
      Pattern(<< Like("lookup", "None"), Anyone >>),
      Pattern(<< Like("odd", "None") >>),
      Pattern(<< Repeat(<< Lit(1) >>, 0, 1, TRUE), Lit(2) >>),
      Pattern(<< Either(<< << Lit(1), Lit(1) >>, << Lit(2) >> >>), Lit(1) >>),
      Pattern(<< Group(<< Lit(1), Repeat(<< Lit(2) >>, 1, infinity, TRUE) >>, "x"), Lit(1) >>),
      Repeat(<< Lit(1), Anyone >>, 1, infinity, TRUE) }
    \cup { Pattern(<< Repeat(<< Lit(1) >>, 2, 3, greedy) >>) : greedy \in BOOLEAN }

InitFailure == InitSession(FailurePatterns)
NextFailure == \E value \in Values : Match(value)
SpecFailure == InitFailure /\ [][NextFailure]_vars

\* whether a leaf item accepts the element n, its captures set aside
LeafAccepts(item, n) ==
    CASE item.t = "Lit" -> n = item.v
      [] item.t = "Like" ->
            (CASE item.pattern = "odd" -> n % 2 = 1
               [] item.pattern = "lookup" -> n = 1
               [] OTHER -> n # 2)
      [] OTHER -> TRUE

\* the end offsets at which the items can stop when they start at offset o
\* of the elements v, captures set aside: a quantifier stands for min to max
\* repetitions, a group for its subpattern, an alternation for any option
RECURSIVE Ends(_, _, _), EndsAfter(_, _, _, _)
Ends(items, v, o) ==
    IF items = << >> THEN { o }
    ELSE LET item == Head(items)
             after(S) == UNION { Ends(Tail(items), v, e) : e \in S }
         IN  CASE item.t = "Repeat" ->
                     after(UNION { EndsAfter(item.pattern, v, o, k) :
                                     k \in item.min ..
                                          (IF item.max = infinity THEN item.min + Len(v)
                                           ELSE item.max) })
               [] item.t = "Group" -> after(Ends(item.pattern, v, o))
               [] item.t = "Either" ->
                     after(UNION { Ends(item.options[k], v, o) :
                                     k \in 1..Len(item.options) })
               [] OTHER ->
                     IF o < Len(v) /\ LeafAccepts(item, v[o + 1])
                     THEN after({ o + 1 }) ELSE {}

\* the end offsets after k repetitions of the items
EndsAfter(items, v, o, k) ==
    IF k = 0 THEN { o }
    ELSE UNION { Ends(items, v, e) : e \in EndsAfter(items, v, o, k - 1) }

\* two leaves of a sequence of leaves store unequal values under one name
StoredBy(item, n) ==
    IF item.t = "Like" THEN FuncResult(item.pattern, PyInt(n)) ELSE PyInt(n)

StoreName(item) ==
    CASE item.t = "Name" -> item.value
      [] item.t = "Like" -> item.name
      [] OTHER -> "None"

CaptureConflict(value, pat) ==
    /\ \A i \in 1..Len(pat.items) : IsLeaf(pat.items[i])
    /\ Len(value.v) >= Len(pat.items)
    /\ \E i, j \in 1..Len(pat.items) :
          /\ StoreName(pat.items[i]) # "None"
          /\ StoreName(pat.items[i]) = StoreName(pat.items[j])
          /\ StoredBy(pat.items[i], value.v[i]) # StoredBy(pat.items[j], value.v[j])

\* the value cannot be aligned with the pattern
MustFail(value, pat) ==
    IF pat.t = "List"
    THEN \/ Len(value.v) # Len(pat.items)
         \/ \E i \in 1..Len(pat.items) : ~ LeafAccepts(pat.items[i], value.v[i])
         \/ CaptureConflict(value, pat)
    ELSE \/ Ends(PatternItems(pat), value.v, 0) = {}
         \/ pat.t = "Pattern" /\ CaptureConflict(value, pat)

\* C10: Mismatch is never observable by the caller: an attempt on a value
\* that cannot be aligned returns false, it does not raise.
C10_MismatchIsFalse ==
    last.result # "none" =>
        /\ last.result \in {"True", "False"}
        /\ MustFail(last.value, pattern) => last.result = "False"

\* a capture conflict came back as False
C10_Witness ==
    /\ last.result = "False"
    /\ pattern = Pattern(<< Name("x"), Name("x") >>)
    /\ last.value = PyList(<< 1, 2 >>)

\* C21: a structural match need not consume the whole value: a Pattern of n
\* leaf items matches exactly the lists of length at least n whose first n
\* elements match the items (captures of one name on equal elements),
\* whatever follows them, and the search stops at the end offset n.
C21_PrefixMatches ==
    (last.result # "none" /\ pattern.t = "Pattern") =>
        LET n == Len(pattern.items)
            v == last.value.v
            aligned == /\ Len(v) >= n
                       /\ \A i \in 1..n : LeafAccepts(pattern.items[i], v[i])
                       /\ ~ CaptureConflict(last.value, pattern)
        IN  /\ last.result = (IF aligned THEN "True" ELSE "False")
            /\ aligned => n \in last.ends /\ \A end \in last.ends : end <= n

\* a pattern of two items matched a list of three elements
C21_Witness ==
    /\ pattern = Pattern(<< Lit(1), Name("x") >>)
    /\ last.value = PyList(<< 1, 2, 2 >>)
    /\ last.result = "True"
    /\ Committed["x"] = PyInt(2)

(***************************************************************************)
(* Sessions whose pattern has named groups: in a branch that is abandoned, *)
(* after a capture of the same name, over several alignments, and twice    *)
(* under one name.                                                         *)
(***************************************************************************)
GroupPatterns ==
    { Pattern(<< Either(<< << Group(<< Lit(1) >>, "g"), Lit(2) >>, << Anyone >> >>) >>),
      Pattern(<< Name("g"), Either(<< << Group(<< Anyone >>, "g"), Lit(2) >>, << Anyone >> >>) >>),
      Pattern(<< Repeat(<< Group(<< Lit(1) >>, "g") >>, 0, 2, TRUE), Lit(1) >>),
      Pattern(<< Group(<< Repeat(<< Anyone >>, 0, infinity, TRUE) >>, "g"), Lit(2) >>),
      Pattern(<< Group(<< Anyone >>, "g"), Lit(2), Group(<< Anyone >>, "g") >>),
      Pattern(<< Group(<< Anyone >>, "g"), Group(<< Anyone >>, "g") >>),
      Pattern(<< Name("g"), Group(<< Anyone >>, "g") >>),
      Pattern(<< Group(<< Name("g"), Anyone >>, "h"), Lit(2) >>) }

InitGroup == InitSession(GroupPatterns)
NextGroup == \E value \in Values : Match(value)
SpecGroup == InitGroup /\ [][NextGroup]_vars

\* the values stored under the name along the accepted alignment, in order
BindsOf(trail, name) ==
    SelectSeq(trail, LAMBDA ev : ev.e = "bind" /\ ev.name = name)

\* C15: once the search has backtracked past a named group's alignment the
\* name is bound as it was before the group started, so what an attempt
\* commits for a name is what the accepted alignment stored last under it,
\* and nothing when the accepted alignment stored nothing under it.
C15_GroupRestoresBinding ==
    last.result = "True" =>
        \A name \in { "g", "h" } :
            LET binds == BindsOf(last.trail, name)
            IN  IF binds = << >> THEN name \notin DOMAIN Committed
                ELSE /\ name \in DOMAIN Committed
                     /\ PyEq(Committed[name], binds[Len(binds)].value)

\* C19: a named group obeys binding consistency like a capture: the
\* accepted alignment never stores two unequal values under one name.
C19_GroupBindsConsistently ==
    last.result = "True" =>
        \A i, j \in 1..Len(last.trail) :
            (last.trail[i].e = "bind" /\ last.trail[j].e = "bind"
               /\ last.trail[i].name = last.trail[j].name)
            => PyEq(last.trail[i].value, last.trail[j].value)

(***************************************************************************)
(* Sessions whose pattern is an alternation of sequences of leaves,        *)
(* followed by leaves, with several options that match the same value.     *)
(***************************************************************************)
AlternationPatterns ==
    { Pattern(<< Either(<< << Name("x"), Lit(1) >>, << Name("y"), Name("x") >>, << Name("y") >> >>) >>),
      Pattern(<< Either(<< << Lit(1) >>, << Anyone >>, << Lit(1), Lit(2) >> >>), Lit(2) >>),
      Pattern(<< Either(<< << Lit(1), Lit(1) >>, << Lit(1) >>, << Anyone >> >>), Anyone >>),
      Pattern(<< Either(<< << Name("x"), Lit(2) >>, << Name("x") >> >>), Name("x") >>),
      Pattern(<< Either(<< << Anyone, Anyone >>, << Anyone >>, << >> >>), Lit(2) >>),
      Pattern(<< Either(<< << Like("odd", "None") >>, << Name("x") >>, << Lit(2) >> >>), Name("y") >>) }

InitAlternation == InitSession(AlternationPatterns)
NextAlternation == \E value \in Values : Match(value)
SpecAlternation == InitAlternation /\ [][NextAlternation]_vars

\* the options through which the value can be matched: the option followed
\* by the items after the alternation matches on a Matcher of its own
LeadingOptions(value, pat) ==
    { k \in 1..Len(pat.items[1].options) :
        Fresh(value, Pattern(pat.items[1].options[k] \o Tail(pat.items))) = "True" }

\* the options the accepted alignment went through
OptionsTaken(trail) ==
    { trail[i].k : i \in { j \in 1..Len(trail) : trail[j].e = "option" } }

\* C18: when more than one option of an alternation can lead to overall
\* success, the accepted alignment goes through the earliest of them.
C18_EarliestOptionWins ==
    LET leading == LeadingOptions(last.value, pattern)
    IN  (last.result # "none" /\ Cardinality(leading) > 1) =>
            /\ last.result = "True"
            /\ OptionsTaken(last.trail) =
                  { CHOOSE k \in leading : \A other \in leading : k <= other }

(***************************************************************************)
(* Sessions whose Matcher is given cases of the caller's own: the default  *)
(* cases with 'never' or 'always' inserted at any position.  Values are    *)
(* ints as well as lists, so that every default case decides some pair.    *)
(***************************************************************************)
CustomCases == { "never", "always" }

DispatchLeaves ==
    { Lit(1), Lit(2), Name("x"), Anyone, Type("int"), Like("odd", "None") }

DispatchPatterns ==
    DispatchLeaves
    \cup { List(<< Lit(1), Lit(2) >>), List(<< Lit(1), Name("x") >>),
           List(<< Type("list") >>), Pattern(<< Lit(1), Name("x") >>) }

DispatchValues ==
    { PyInt(1), PyInt(2), PyList(<< 1, 2 >>), PyList(<< 1, 1 >>), PyList(<< >>) }

\* cases.insert(p, case): the caller changes the list between attempts
InsertCase(case, p) ==
    /\ \A i \in 1..Len(cases) : cases[i] # case
    /\ p \in 0..Len(cases)
    /\ cases' = SubSeq(cases, 1, p) \o << case >> \o SubSeq(cases, p + 1, Len(cases))
    /\ UNCHANGED << names, bound, pattern, attempts, last, marks, built >>

InitDispatch == InitSession(DispatchPatterns)
NextDispatch ==
    \/ \E value \in DispatchValues : Match(value)
    \/ \E case \in CustomCases, p \in 0..Len(base_cases) + 1 : InsertCase(case, p)
SpecDispatch == InitDispatch /\ [][NextDispatch]_vars

\* the default case that is first to accept the pair, by the kind of the
\* pattern and of the value; "none" when no default case accepts
FirstDefault(value, pat) ==
    CASE pat.t = "Anyone" -> "anyone"
      [] pat.t = "Name" -> "names"
      [] pat.t = "Like" -> "likes"
      [] pat.t = "Type" -> "types"
      [] pat.t = "Lit" -> IF value.k = "int" THEN "literals" ELSE "none"
      [] pat.t = "List" ->
            IF value.k # "list" \/ Len(value.v) # Len(pat.items) THEN "none"
            ELSE IF \A i \in 1..Len(pat.items) :
                        pat.items[i].t = "Lit" /\ pat.items[i].v = value.v[i]
                 THEN "equality" ELSE "sequences"
      [] OTHER -> "patterns"

\* the position of a case in the Matcher's list
Position(case) == CHOOSE i \in 1..Len(cases) : cases[i] = case

\* what the claim makes of a dispatch: among the default case that is first
\* to accept and the caller's cases that accept, the one standing first in
\* the list decides, alone
RECURSIVE Dispatched(_, _)
Dispatched(value, pat) ==
    LET default == FirstDefault(value, pat)
        accepting == ({ default } \ { "none" })
                       \cup { case \in CustomCases :
                                /\ \E i \in 1..Len(cases) : cases[i] = case
                                /\ case = "never" => pat.t = "Lit" }
        winner == CHOOSE case \in accepting :
                      \A other \in accepting : Position(case) <= Position(other)
        items(n) == \A i \in 1..n : Dispatched(PyInt(value.v[i]), pat.items[i]) = "True"
        yes(b) == IF b THEN "True" ELSE "False"
    IN  IF accepting = {} THEN "False"
        ELSE CASE winner = "never" -> "False"
               [] winner = "always" -> "True"
               [] winner = "sequences" -> yes(items(Len(pat.items)))
               [] winner = "patterns" ->
                     IF value.k # "list" THEN "Error"
                     ELSE yes(Len(value.v) >= Len(pat.items) /\ items(Len(pat.items)))
               [] winner = "literals" -> yes(value.v = pat.v)
               [] winner = "types" -> yes(value.k = pat.name)
               [] winner = "likes" -> yes(value.k = "int" /\ LeafAccepts(pat, value.v))
               [] OTHER -> "True"

\* C11: dispatch goes through the cases in list order and the first case
\* whose predicate accepts decides alone: its action's result is the result,
\* its Mismatch is the dispatch's Mismatch whatever later cases would do, and
\* with no accepting case the dispatch fails; a case inserted at position p
\* is consulted before every case after p.
C11_FirstAcceptingDecides ==
    [][ attempts' # attempts => last'.result = Dispatched(last'.value, pattern) ]_vars

\* 'never' was inserted before 'literals', and the literal 1 against 1 fails
C11_Witness ==
    /\ Position("literals") > 1
    /\ \E i \in 1..Position("literals") - 1 : cases[i] = "never"
    /\ pattern = Lit(1)
    /\ last.value = PyInt(1)
    /\ last.result = "False"

(***************************************************************************)
(* Sessions with the default cases whose pairs get as far as the           *)
(* 'equality' case: a list pattern, a literal against a list, a structural *)
(* Pattern; equal and unequal, against ints and lists.                     *)
(***************************************************************************)
EqualityPatterns ==
    { Lit(1), List(<< >>), List(<< Lit(1) >>), List(<< Lit(1), Lit(2) >>),
      List(<< Lit(1), Name("x") >>), List(<< Anyone, Lit(1) >>),
      List(<< Type("int"), Like("odd", "None") >>),
      Pattern(<< Lit(1), Lit(2) >>), Pattern(<< Lit(1), Name("x") >>), Name("x") }

EqualityValues ==
    { PyInt(1), PyList(<< >>), PyList(<< 1 >>), PyList(<< 1, 1 >>), PyList(<< 1, 2 >>),
      PyList(<< 2, 1 >>) }

InitEquality == InitSession(EqualityPatterns)
NextEquality == \E value \in EqualityValues : Match(value)
SpecEquality == InitEquality /\ [][NextEquality]_vars

\* no case before 'equality' accepts the pair
ReachesEquality(value, pat) ==
    /\ pat.t \notin {"Anyone", "Name", "Like", "Type"}
    /\ ~ (pat.t = "Lit" /\ value.k = "int")

\* the value equals the pattern
EqualsPattern(value, pat) == FirstDefault(value, pat) = "equality"

\* C20: in the default order the 'equality' case accepts every pair that
\* gets to it and matches exactly when the value equals the pattern; a pair
\* that gets to it unequal is a Mismatch.
C20_EqualityDecides ==
    (last.result # "none" /\ ReachesEquality(last.value, pattern)) =>
        last.result = (IF EqualsPattern(last.value, pattern) THEN "True" ELSE "False")

\* C20 as the code has it: the 'equality' case accepts exactly the pairs
\* that are equal, and then matches, binding nothing; a pair that gets to it
\* unequal goes on to the later cases ('sequences', 'patterns'): its outcome
\* is that of the first of them to accept it, and Mismatch when neither does.
C20_EqualityThenLaterCases ==
    (last.result # "none" /\ ReachesEquality(last.value, pattern)) =>
        IF EqualsPattern(last.value, pattern)
        THEN last.result = "True" /\ Committed = EmptyDict
        ELSE /\ last.result = Dispatched(last.value, pattern)
             /\ FirstDefault(last.value, pattern) = "none" => last.result = "False"

\* [1, 2] against the list pattern [1, capture x]: unequal, and matched by
\* the 'sequences' case
C20_Witness ==
    /\ pattern = List(<< Lit(1), Name("x") >>)
    /\ last.value = PyList(<< 1, 2 >>)
    /\ last.result = "True"
    /\ Committed["x"] = PyInt(2)

(***************************************************************************)
(* Sessions with overlapping attempts: the pattern holds a like() item     *)
(* whose callable calls match on the Matcher that is matching (an inner    *)
(* attempt, started and finished inside the outer one), after, before and  *)
(* between captures of the outer attempt.                                  *)
(***************************************************************************)
OverlapPatterns ==
    { Pattern(<< Name("x"), Like("rematch", "None") >>),
      Pattern(<< Name("x"), Like("rematch", "None"), Name("x") >>),
      List(<< Name("x"), Like("rematch", "None"), Name("x") >>),
      Pattern(<< Like("rematch", "None"), Name("x") >>),
      Pattern(<< Name("x"), Like("rematch", "z") >>),
      Pattern(<< Name("x"), Name("y"), Like("rematch", "None") >>),
      Pattern(<< Name("x"), Either(<< << Like("rematch", "None"), Lit(2) >>,
                                      << Anyone, Name("y") >> >>) >>),
      Pattern(<< Name("x"), Like("odd", "None") >>) }

InitOverlap == InitSession(OverlapPatterns)
NextOverlap == \E value \in Values : Match(value)
SpecOverlap == InitOverlap /\ [][NextOverlap]_vars

\* C22: overlapping attempts on one Matcher are isolated: what the outer
\* attempt stored before an inner attempt is still visible to it afterwards
\* (a later capture of the name must agree with it) and is committed when
\* the outer attempt succeeds.
C22_OverlappingAttemptsIsolated ==
    last.result = "True" =>
        \A i \in 1..Len(last.trail) :
            last.trail[i].e = "bind" =>
                /\ last.trail[i].name \in DOMAIN Committed
                /\ PyEq(Committed[last.trail[i].name], last.trail[i].value)
                /\ \A j \in 1..Len(last.trail) :
                      (last.trail[j].e = "bind" /\ last.trail[j].name = last.trail[i].name)
                      => PyEq(last.trail[j].value, last.trail[i].value)

(***************************************************************************)
(* A caller working on a MapStack through push, __setitem__, pull and      *)
(* undo, every pull and undo closing a push of its own.  The MapStack      *)
(* starts with one or two frames (MapStack(maps)).                         *)
(***************************************************************************)
MaxFrames == 3

Keys == { "x", "y" }
Stored == { PyInt(1), PyInt(2) }

Dicts == UNION { [D -> Stored] : D \in SUBSET Keys }

InitMapStack ==
    /\ names \in { << d >> : d \in Dicts } \cup { << d, EmptyDict >> : d \in Dicts }
                \cup { << [n \in {"x"} |-> PyInt(1)], d >> : d \in Dicts }
    /\ bound = <<>>
    /\ cases = base_cases
    /\ pattern = Anyone
    /\ attempts = 0
    /\ last = NoCall
    /\ marks = NoMarks
    /\ built = NoBuilt

\* names.push()
Push ==
    /\ Len(names) < MaxFrames
    /\ names' = MapPush(names)
    /\ marks' = [open |-> Append(marks.open, [visible |-> MapCopy(names), count |-> Len(names)]),
                 op |-> "push", before |-> MapCopy(names), closed |-> marks.closed]
    /\ UNCHANGED << bound, cases, pattern, attempts, last, built >>

\* names[key] = value
SetItem(key, value) ==
    /\ names' = MapSetItem(names, key, value)
    /\ marks' = [marks EXCEPT !.op = "set", !.before = MapCopy(names)]
    /\ UNCHANGED << bound, cases, pattern, attempts, last, built >>

\* names.pull()
Pull ==
    /\ marks.open # <<>>
    /\ names' = MapPull(names)
    /\ marks' = [open |-> SubSeq(marks.open, 1, Len(marks.open) - 1), op |-> "pull",
                 before |-> MapCopy(names), closed |-> marks.open[Len(marks.open)]]
    /\ UNCHANGED << bound, cases, pattern, attempts, last, built >>

\* names.undo()
Undo ==
    /\ marks.open # <<>>
    /\ names' = MapUndo(names)
    /\ marks' = [open |-> SubSeq(marks.open, 1, Len(marks.open) - 1), op |-> "undo",
                 before |-> MapCopy(names), closed |-> marks.open[Len(marks.open)]]
    /\ UNCHANGED << bound, cases, pattern, attempts, last, built >>

NextMapStack ==
    \/ Push
    \/ \E key \in Keys, value \in Stored : SetItem(key, value)
    \/ Pull
    \/ Undo
SpecMapStack == InitMapStack /\ [][NextMapStack]_vars

\* C13: for a MapStack with at least one frame: after push, sets and undo
\* every lookup is what it was before the push; after push, sets and pull
\* every lookup is what it was just before the pull and the frame count is
\* what it was before the push; a lookup gives the value of the most recent
\* frame that holds the name.
C13_BindingEnvironmentLaws ==
    /\ marks.op = "undo" =>
          /\ MapCopy(names) = marks.closed.visible
          /\ Len(names) = marks.closed.count
    /\ marks.op = "pull" =>
          /\ MapCopy(names) = marks.before
          /\ Len(names) = marks.closed.count
    /\ \A key \in Keys :
          MapContains(names, key) =>
              \E i \in 1..Len(names) :
                  /\ key \in DOMAIN names[i]
                  /\ \A j \in (i + 1)..Len(names) : key \notin DOMAIN names[j]
                  /\ MapGetItem(names, key) = names[i][key]

\* a pull made durable a value that shadowed the one visible before its push
C13_Witness ==
    /\ marks.op = "pull"
    /\ \E key \in DOMAIN marks.closed.visible :
          /\ MapContains(names, key)
          /\ MapGetItem(names, key) # marks.closed.visible[key]

(***************************************************************************)
(* A caller building patterns with +, from items that are literals,        *)
(* captures and combinators.                                               *)
(***************************************************************************)
ConcatItems ==
    { Lit(1), Lit(2), Name("x"), Anyone, Repeat(<< Lit(1) >>, 0, 2, TRUE),
      Either(<< << Lit(1) >>, << Name("x") >> >>) }

\* the caller evaluates (A + B) + C, A + (B + C), Pattern([A, B, C]),
\* (Pattern(A) + B) + C and Pattern(A) + (Pattern(B) + C)
Concatenate(A, B, C) ==
    /\ built' = [done |-> TRUE, a |-> A, b |-> B, c |-> C,
                 left |-> Add(Add(A, B), C),
                 right |-> Add(A, Add(B, C)),
                 direct |-> PatternOne(List(<< A, B, C >>)),
                 wrapped_left |-> Add(Add(PatternOne(A), B), C),
                 wrapped_right |-> Add(PatternOne(A), Add(PatternOne(B), C))]
    /\ UNCHANGED << names, bound, cases, pattern, attempts, last, marks >>

InitConcat == InitSession({ Anyone })
NextConcat == \E A, B, C \in ConcatItems : Concatenate(A, B, C)
SpecConcat == InitConcat /\ [][NextConcat]_vars

\* Details.__eq__ between two results of the caller, neither an exception
SamePattern(p, q) == p.t = "Pattern" /\ q.t = "Pattern" /\ p.items = q.items

Patterns ==
    BindingPatterns \cup SessionPatterns \cup QuantifierPatterns \cup BoundedPatterns
        \cup CapturePatterns \cup NegationPatterns \cup FailurePatterns
        \cup GroupPatterns \cup AlternationPatterns \cup DispatchPatterns
        \cup EqualityPatterns \cup OverlapPatterns

Init == InitSession(Patterns)
Next ==
    \/ \E value \in CaptureValues \cup DispatchValues \cup EqualityValues : Match(value)
    \/ \E case \in CustomCases, p \in 0..Len(base_cases) + 1 : InsertCase(case, p)
    \/ Push
    \/ \E key \in Keys, value \in Stored : SetItem(key, value)
    \/ Pull
    \/ Undo
    \/ \E A, B, C \in ConcatItems : Concatenate(A, B, C)
Spec == Init /\ [][Next]_vars

====
